---- MODULE Spec2Model ----
(***************************************************************************)
(* Model of calculate_sustainability_metrics (src/Sustainability_Calc.py). *)
(*                                                                         *)
(* A DataFrame is a sequence of rows; a row is a record whose fields are   *)
(* the columns.  The function works on the caller's DataFrame object, one  *)
(* column assignment after the other; each assignment is one action.       *)
(*                                                                         *)
(* float64 cells are modelled as exact rationals extended with the IEEE    *)
(* special values nan, +inf and -inf, with numpy's rules for them (x/0 is  *)
(* an infinity or nan, never an exception; every comparison with nan is    *)
(* false).  Rounding of finite values and the sign of zero are not         *)
(* modelled.                                                               *)
(***************************************************************************)
EXTENDS Integers, Sequences, FiniteSets, TLC

(***************************************************************************)
(* float64 values                                                          *)
(***************************************************************************)
Abs(i) == IF i < 0 THEN -i ELSE i

RECURSIVE Gcd(_, _)
Gcd(a, b) == IF b = 0 THEN a ELSE Gcd(b, a % b)

\* the finite value n/d in lowest terms with a positive denominator
Q(n, d) ==
    LET g == Gcd(Abs(n), Abs(d))
        s == IF d < 0 THEN -1 ELSE 1
    IN  [k |-> "fin", n |-> s * (n \div g), d |-> s * (d \div g)]

I(n) == [k |-> "fin", n |-> n, d |-> 1]

NaN  == [k |-> "nan", n |-> 0, d |-> 1]
PInf == [k |-> "inf", n |-> 1, d |-> 1]
NInf == [k |-> "inf", n |-> -1, d |-> 1]

IsNaN(a) == a.k = "nan"
IsFin(a) == a.k = "fin"
IsInf(a) == a.k = "inf"

\* -1, 0 or 1; only used on values that are not nan
Sign(a) == IF a.n > 0 THEN 1 ELSE IF a.n < 0 THEN -1 ELSE 0

Signed(s) == IF s > 0 THEN PInf ELSE NInf

Neg(a) == IF IsNaN(a) THEN NaN ELSE [a EXCEPT !.n = -a.n]

Add(a, b) ==
    IF IsNaN(a) \/ IsNaN(b) THEN NaN
    ELSE IF IsInf(a) /\ IsInf(b) THEN (IF a.n = b.n THEN a ELSE NaN)
    ELSE IF IsInf(a) THEN a
    ELSE IF IsInf(b) THEN b
    ELSE LET g == Gcd(a.d, b.d)
             l == (a.d \div g) * b.d
         IN  Q(a.n * (l \div a.d) + b.n * (l \div b.d), l)

Sub(a, b) == Add(a, Neg(b))

Mul(a, b) ==
    IF IsNaN(a) \/ IsNaN(b) THEN NaN
    ELSE IF IsInf(a) \/ IsInf(b)
         THEN (IF Sign(a) * Sign(b) = 0 THEN NaN ELSE Signed(Sign(a) * Sign(b)))
    ELSE LET g1 == Gcd(Abs(a.n), b.d)
             g2 == Gcd(Abs(b.n), a.d)
         IN  Q((a.n \div g1) * (b.n \div g2), (a.d \div g2) * (b.d \div g1))

Div(a, b) ==
    IF IsNaN(a) \/ IsNaN(b) THEN NaN
    ELSE IF IsInf(a) THEN (IF IsInf(b) THEN NaN
                           ELSE Signed(Sign(a) * (IF Sign(b) < 0 THEN -1 ELSE 1)))
    ELSE IF IsInf(b) THEN I(0)
    ELSE IF b.n = 0 THEN (IF a.n = 0 THEN NaN ELSE Signed(Sign(a)))
    ELSE Mul(a, Q(b.d, b.n))

\* a < b, false when either side is nan
Lt(a, b) ==
    IF IsNaN(a) \/ IsNaN(b) THEN FALSE
    ELSE IF IsInf(a) THEN a.n < 0 /\ ~(IsInf(b) /\ b.n < 0)
    ELSE IF IsInf(b) THEN b.n > 0
    ELSE Sign(Sub(a, b)) < 0

Gt(a, b) == Lt(b, a)
Le(a, b) == ~IsNaN(a) /\ ~IsNaN(b) /\ ~Lt(b, a)
Ge(a, b) == Le(b, a)

(***************************************************************************)
(* numpy / Python primitives used by the scores                            *)
(***************************************************************************)
\* Python max(0, x): x replaces 0 only when x > 0, so max(0, nan) is 0
PyMax0(x) == IF Gt(x, I(0)) THEN x ELSE I(0)

\* a clip that forgets the upper bound
Clip01_NoUpper(x) ==
    IF IsNaN(x) THEN NaN
    ELSE IF Lt(x, I(0)) THEN I(0)
    ELSE x

\* np.clip(x, 0, 1) and Series.clip(0, 1): nan stays nan
Clip01(x) ==
    IF IsNaN(x) THEN NaN
    ELSE IF Lt(x, I(0)) THEN I(0)
    ELSE IF Gt(x, I(1)) THEN I(1)
    ELSE x

\* np.interp(x, [x0, x1], [0, 1]) for integers x0 < x1
Interp01(x, x0, x1) ==
    IF IsNaN(x) THEN NaN
    ELSE IF Le(x, I(x0)) THEN I(0)
    ELSE IF Ge(x, I(x1)) THEN I(1)
    ELSE Div(Sub(x, I(x0)), I(x1 - x0))

(***************************************************************************)
(* DataFrames                                                              *)
(***************************************************************************)
\* the missing value of the object column cdp_score
None == "None"

Cols(d) == DOMAIN d[1]

Rows(d) == 1..Len(d)

\* df[c] = vals
SetCol(d, c, vals) == [i \in Rows(d) |-> (c :> vals[i]) @@ d[i]]

\* the columns named in the docstring
InputCols ==
    {"company", "sector", "revenue_usd_b", "employees_k", "scope1_mt",
     "scope2_mt", "scope3_mt", "renewable_pct", "sbti", "target_year",
     "interim_2030_pct", "capex_green_pct", "cdp_score", "year",
     "last_year_total_mt"}

(***************************************************************************)
(* One operator per assigned column: the values of the new column          *)
(***************************************************************************)
total_mt(d) ==
    [i \in Rows(d) |-> Add(Add(d[i].scope1_mt, d[i].scope2_mt), d[i].scope3_mt)]

intensity_mt_per_billion(d) ==
    [i \in Rows(d) |-> Div(d[i].total_mt, d[i].revenue_usd_b)]

intensity_t_per_employee(d) ==
    [i \in Rows(d) |->
        Div(Mul(d[i].total_mt, I(1000000)), Mul(d[i].employees_k, I(1000)))]

\* the difference taken the wrong way round
yoy_change_mt_Swapped(d) ==
    [i \in Rows(d) |-> Sub(d[i].last_year_total_mt, d[i].total_mt)]

yoy_change_mt(d) ==
    [i \in Rows(d) |-> Sub(d[i].total_mt, d[i].last_year_total_mt)]

yoy_change_pct(d) ==
    [i \in Rows(d) |->
        Mul(Div(d[i].yoy_change_mt, d[i].last_year_total_mt), I(100))]

cdp_map ==
    [A |-> I(1), B |-> Q(7, 10), C |-> Q(1, 2), D |-> Q(3, 10)]
        @@ ("A-" :> Q(9, 10))

\* the map without the fillna
cdp_norm_NoFillna(d) ==
    [i \in Rows(d) |->
        IF d[i].cdp_score \in DOMAIN cdp_map THEN cdp_map[d[i].cdp_score]
        ELSE NaN]

\* df["cdp_score"].map(cdp_map).fillna(0.5)
cdp_norm(d) ==
    [i \in Rows(d) |->
        IF d[i].cdp_score \in DOMAIN cdp_map THEN cdp_map[d[i].cdp_score]
        ELSE Q(1, 2)]

year_bonus(r) == Div(PyMax0(Sub(I(2050), r.target_year)), I(20))

ambition(r) ==
    LET interim == Div(r.interim_2030_pct, I(60))
        sbti    == IF r.sbti THEN I(1) ELSE Q(3, 5)
    IN  Clip01(Add(Add(Mul(Q(2, 5), year_bonus(r)), Mul(Q(2, 5), interim)),
                   Mul(Q(1, 5), sbti)))

\* the list built by the loop, in row order
ambition_score(d) == [i \in Rows(d) |-> ambition(d[i])]

\* the interpolation without the sign inversion
yoy_norm_NoNegation(r) == Interp01(r.yoy_change_pct, -5, 30)

\* yoy of the progress loop
yoy_norm(r) == Interp01(Neg(r.yoy_change_pct), -5, 30)

\* the renewable share counted against the score
progress_RenInverted(r) ==
    LET ren   == Div(r.renewable_pct, I(100))
        capex == Div(r.capex_green_pct, I(35))
    IN  Clip01(Add(Sub(Mul(Q(1, 2), yoy_norm(r)), Mul(Q(3, 10), ren)),
                   Mul(Q(1, 5), capex)))

progress(r) ==
    LET ren   == Div(r.renewable_pct, I(100))
        capex == Div(r.capex_green_pct, I(35))
    IN  Clip01(Add(Add(Mul(Q(1, 2), yoy_norm(r)), Mul(Q(3, 10), ren)),
                   Mul(Q(1, 5), capex)))

progress_score(d) == [i \in Rows(d) |-> progress(d[i])]

required_cols ==
    {"scope1_mt", "scope2_mt", "scope3_mt", "renewable_pct",
     "capex_green_pct", "cdp_score"}

notna(r, c) == IF c = "cdp_score" THEN r[c] # None ELSE ~IsNaN(r[c])

\* the mean taken over the whole frame instead of per row
completeness_WholeFrame(d) ==
    [i \in Rows(d) |->
        Q(Cardinality({x \in Rows(d) \X required_cols : notna(d[x[1]], x[2])}),
          Len(d) * Cardinality(required_cols))]

\* df[required_cols].notna().mean(axis=1)
completeness(d) ==
    [i \in Rows(d) |->
        Q(Cardinality({c \in required_cols : notna(d[i], c)}),
          Cardinality(required_cols))]

disclosure_score(d) ==
    [i \in Rows(d) |->
        Clip01(Add(Mul(Q(7, 10), d[i].cdp_norm),
                   Mul(Q(3, 10), completeness(d)[i])))]

align(r) == Interp01(r.capex_green_pct, 5, 35)

credibility(r) ==
    LET penalty == Mul(PyMax0(Sub(r.ambition_score, r.progress_score)), Q(3, 10))
    IN  Clip01(Sub(Add(Add(Mul(Q(1, 2), r.ambition_score),
                           Mul(Q(3, 10), align(r))),
                       Mul(Q(1, 5), r.disclosure_score)),
                   penalty))

credibility_score(d) == [i \in Rows(d) |-> credibility(d[i])]

netzero_readiness(d) ==
    [i \in Rows(d) |->
        Clip01(Add(Add(Add(Mul(Q(1, 4), d[i].ambition_score),
                           Mul(Q(3, 10), d[i].progress_score)),
                       Mul(Q(1, 4), d[i].credibility_score)),
                   Mul(Q(1, 5), d[i].disclosure_score)))]

HighCond(r) ==
    /\ Gt(r.ambition_score, Q(7, 10))
    /\ Lt(r.capex_green_pct, I(12))
    /\ Gt(r.yoy_change_pct, I(0))

MediumCond(r) ==
    /\ Gt(r.ambition_score, Q(3, 5))
    /\ Lt(r.progress_score, Q(9, 20))

\* the two np.where tests in the opposite order
risk_MediumFirst(r) ==
    IF MediumCond(r) THEN "Medium"
    ELSE IF HighCond(r) THEN "High"
    ELSE "Low"

risk(r) ==
    IF HighCond(r) THEN "High"
    ELSE IF MediumCond(r) THEN "Medium"
    ELSE "Low"

greenwash_risk(d) == [i \in Rows(d) |-> risk(d[i])]

(***************************************************************************)
(* The function body, statement by statement                               *)
(***************************************************************************)
\* the columns assigned, in program order
Stages ==
    <<"total_mt", "intensity_mt_per_billion", "intensity_t_per_employee",
      "yoy_change_mt", "yoy_change_pct", "cdp_norm", "ambition_score",
      "progress_score", "disclosure_score", "credibility_score",
      "netzero_readiness", "greenwash_risk">>

StageNo(c) == CHOOSE k \in 1..Len(Stages) : Stages[k] = c

\* where control goes after the assignment of column c
NextPc(c) ==
    IF StageNo(c) = Len(Stages) THEN "return" ELSE Stages[StageNo(c) + 1]

\* the columns the assignment of column c reads; df[x] raises KeyError when
\* the frame has no column x
Needed(c) ==
    CASE c = "total_mt" -> {"scope1_mt", "scope2_mt", "scope3_mt"}
      [] c = "intensity_mt_per_billion" -> {"total_mt", "revenue_usd_b"}
      [] c = "intensity_t_per_employee" -> {"total_mt", "employees_k"}
      [] c = "yoy_change_mt" -> {"total_mt", "last_year_total_mt"}
      [] c = "yoy_change_pct" -> {"yoy_change_mt", "last_year_total_mt"}
      [] c = "cdp_norm" -> {"cdp_score"}
      [] c = "ambition_score" -> {"target_year", "interim_2030_pct", "sbti"}
      [] c = "progress_score" ->
            {"yoy_change_pct", "renewable_pct", "capex_green_pct"}
      [] c = "disclosure_score" -> required_cols \cup {"cdp_norm"}
      [] c = "credibility_score" ->
            {"capex_green_pct", "ambition_score", "progress_score",
             "disclosure_score"}
      [] c = "netzero_readiness" ->
            {"ambition_score", "progress_score", "credibility_score",
             "disclosure_score"}
      [] c = "greenwash_risk" ->
            {"ambition_score", "capex_green_pct", "yoy_change_pct",
             "progress_score"}

Vals(c, d) ==
    CASE c = "total_mt" -> total_mt(d)
      [] c = "intensity_mt_per_billion" -> intensity_mt_per_billion(d)
      [] c = "intensity_t_per_employee" -> intensity_t_per_employee(d)
      [] c = "yoy_change_mt" -> yoy_change_mt(d)
      [] c = "yoy_change_pct" -> yoy_change_pct(d)
      [] c = "cdp_norm" -> cdp_norm(d)
      [] c = "ambition_score" -> ambition_score(d)
      [] c = "progress_score" -> progress_score(d)
      [] c = "disclosure_score" -> disclosure_score(d)
      [] c = "credibility_score" -> credibility_score(d)
      [] c = "netzero_readiness" -> netzero_readiness(d)
      [] c = "greenwash_risk" -> greenwash_risk(d)

\* the whole call on frame d, from the statement that assigns column c on
RECURSIVE RunFrom(_, _)
RunFrom(c, d) ==
    IF c = "return" THEN [pc |-> "returned", df |-> d]
    ELSE IF Needed(c) \subseteq Cols(d)
         THEN CHOOSE r \in {RunFrom(NextPc(c), e) : e \in {SetCol(d, c, Vals(c, d))}} :
                  TRUE
         ELSE [pc |-> "raised", df |-> d]

calculate_sustainability_metrics(d) == RunFrom(Stages[1], d)

VARIABLES
    df,     \* the DataFrame object the caller passed, as it is now
    pc,     \* the column about to be assigned, "return", "returned", "raised"
    input,  \* history: df as it was when the call started
    ret,    \* the object returned: "df" is the caller's own object
    exc     \* the exception that left the function, if any

vars == <<df, pc, input, ret, exc>>

Assign(c) ==
    /\ pc = c
    /\ IF Needed(c) \subseteq Cols(df)
       THEN /\ df' = SetCol(df, c, Vals(c, df))
            /\ pc' = NextPc(c)
            /\ exc' = exc
       ELSE /\ df' = df
            /\ pc' = "raised"
            /\ exc' = [kind |-> "KeyError",
                       key |-> CHOOSE x \in Needed(c) : x \notin Cols(df)]
    /\ UNCHANGED <<input, ret>>

TotalMt == Assign("total_mt")
IntensityMtPerBillion == Assign("intensity_mt_per_billion")
IntensityTPerEmployee == Assign("intensity_t_per_employee")
YoyChangeMt == Assign("yoy_change_mt")
YoyChangePct == Assign("yoy_change_pct")
CdpNorm == Assign("cdp_norm")
AmbitionScore == Assign("ambition_score")
ProgressScore == Assign("progress_score")
DisclosureScore == Assign("disclosure_score")
CredibilityScore == Assign("credibility_score")
NetzeroReadiness == Assign("netzero_readiness")
GreenwashRisk == Assign("greenwash_risk")

\* return df
Return ==
    /\ pc = "return"
    /\ pc' = "returned"
    /\ ret' = "df"
    /\ UNCHANGED <<df, input, exc>>

Next ==
    \/ TotalMt
    \/ IntensityMtPerBillion
    \/ IntensityTPerEmployee
    \/ YoyChangeMt
    \/ YoyChangePct
    \/ CdpNorm
    \/ AmbitionScore
    \/ ProgressScore
    \/ DisclosureScore
    \/ CredibilityScore
    \/ NetzeroReadiness
    \/ GreenwashRisk
    \/ Return

(***************************************************************************)
(* Input frames                                                            *)
(***************************************************************************)
\* the record of the example in the __main__ block
Sample ==
    [company |-> "ExampleBank", sector |-> "Banking",
     revenue_usd_b |-> I(100), employees_k |-> I(200),
     scope1_mt |-> Q(1, 5), scope2_mt |-> Q(3, 10), scope3_mt |-> I(5),
     renewable_pct |-> I(80), sbti |-> TRUE, target_year |-> I(2040),
     interim_2030_pct |-> I(45), capex_green_pct |-> I(15),
     cdp_score |-> "A-", year |-> I(2024), last_year_total_mt |-> I(6)]

MaxBatch == 2

\* the sample and its one-field variations: every rating, an unmapped and a
\* missing rating, a zero or missing revenue, zero employees, a zero baseline
\* with and without emissions
Pool ==
    {Sample}
    \cup {[Sample EXCEPT !.cdp_score = s] : s \in {"A", "B", "C", "D", "F", None}}
    \cup {[Sample EXCEPT !.revenue_usd_b = v] : v \in {I(0), NaN}}
    \cup {[Sample EXCEPT !.employees_k = I(0)]}
    \cup {[Sample EXCEPT !.last_year_total_mt = I(0)]}
    \cup {[Sample EXCEPT !.scope1_mt = I(0), !.scope2_mt = I(0),
                         !.scope3_mt = I(0), !.last_year_total_mt = I(0)]}

\* a frame may lack a column altogether
Droppable == {"none", "revenue_usd_b", "cdp_score"}

Without(r, c) == [x \in DOMAIN r \ {c} |-> r[x]]

NoException == [kind |-> "none", key |-> ""]

Start(d) ==
    /\ df = d
    /\ input = d
    /\ pc = Stages[1]
    /\ ret = "nothing"
    /\ exc = NoException

Init ==
    \E n \in 1..MaxBatch : \E batch \in [1..n -> Pool] : \E c \in Droppable :
        Start([i \in 1..n |-> Without(batch[i], c)])

Spec == Init /\ [][Next]_vars

\* valid records on a grid of field values, in frames of two records that
\* differ at most in renewable_pct
GridEmissions ==
    {<<I(5), I(6)>>, <<I(5), I(10)>>, <<Q(13, 2), I(10)>>, <<I(9), I(10)>>,
     <<I(10), I(10)>>, <<Q(25, 2), I(10)>>, <<Q(25, 2), I(6)>>}
GridRenewable == {0, 80, 250}
GridTargetYear == {2020, 2040, 2060}
GridInterim == {-30, 45, 90}
GridCapex == {-70, 10, 15, 40}
GridCdp == {"A", "A-", "D", "F"}

GridRecord(e, ren, sb, ty, it, cx, cdp) ==
    [Sample EXCEPT !.scope3_mt = e[1], !.last_year_total_mt = e[2],
                   !.renewable_pct = I(ren), !.sbti = sb,
                   !.target_year = I(ty), !.interim_2030_pct = I(it),
                   !.capex_green_pct = I(cx), !.cdp_score = cdp]

InitGrid ==
    \E e \in GridEmissions : \E r1 \in GridRenewable : \E r2 \in GridRenewable :
    \E sb \in BOOLEAN : \E ty \in GridTargetYear : \E it \in GridInterim :
    \E cx \in GridCapex : \E cdp \in GridCdp :
        /\ r1 <= r2
        /\ Start(<<GridRecord(e, r1, sb, ty, it, cx, cdp),
                   GridRecord(e, r2, sb, ty, it, cx, cdp)>>)

SpecGrid == InitGrid /\ [][Next]_vars

(***************************************************************************)
(* Properties                                                              *)
(***************************************************************************)
Returned == pc = "returned"
Terminated == pc \in {"returned", "raised"}
Has(c) == c \in Cols(df)

NumericInputs ==
    {"revenue_usd_b", "employees_k", "scope1_mt", "scope2_mt", "scope3_mt",
     "renewable_pct", "target_year", "interim_2030_pct", "capex_green_pct",
     "year", "last_year_total_mt"}

\* a valid input record: every field present, positive revenue and head
\* count, a non-zero baseline
Valid(r) ==
    /\ InputCols \subseteq DOMAIN r
    /\ \A c \in NumericInputs : IsFin(r[c])
    /\ r.cdp_score # None
    /\ Gt(r.revenue_usd_b, I(0))
    /\ Gt(r.employees_k, I(0))
    /\ r.last_year_total_mt # I(0)

InUnit(v) == IsFin(v) /\ Ge(v, I(0)) /\ Le(v, I(1))

ScoreCols ==
    {"ambition_score", "progress_score", "disclosure_score",
     "credibility_score", "netzero_readiness"}

\* C1: every score computed for a valid record lies in [0, 1]
C1_RangeInvariant ==
    \A i \in Rows(df) :
        Valid(input[i]) =>
            \A c \in ScoreCols : Has(c) => InUnit(df[i][c])

\* a returned valid record whose ambition sum was clamped down to 1 and whose
\* progress sum was clamped up to 0
C1_Witness ==
    /\ Returned
    /\ \E i \in Rows(df) :
        /\ Valid(input[i])
        /\ df[i].ambition_score = I(1)
        /\ df[i].progress_score = I(0)
        /\ Gt(year_bonus(df[i]), I(1))
        /\ Lt(df[i].capex_green_pct, I(0))

C2_HighTest(r) ==
    /\ Gt(r.ambition_score, Q(7, 10))
    /\ Lt(r.capex_green_pct, I(12))
    /\ Gt(r.yoy_change_pct, I(0))

C2_MediumTest(r) ==
    /\ Gt(r.ambition_score, Q(6, 10))
    /\ Lt(r.progress_score, Q(45, 100))

\* C2: greenwash_risk is High exactly on the High test, Medium exactly on the
\* Medium test when the High test fails, Low otherwise
C2_FirstMatchWins ==
    Has("greenwash_risk") =>
        \A i \in Rows(df) :
            /\ df[i].greenwash_risk \in {"High", "Medium", "Low"}
            /\ df[i].greenwash_risk = "High" <=> C2_HighTest(df[i])
            /\ df[i].greenwash_risk = "Medium" <=>
                   (~C2_HighTest(df[i]) /\ C2_MediumTest(df[i]))
            /\ df[i].greenwash_risk = "Low" <=>
                   (~C2_HighTest(df[i]) /\ ~C2_MediumTest(df[i]))

\* a returned record that passes both tests and is labelled High
C2_Witness ==
    /\ Returned
    /\ \E i \in Rows(df) :
        /\ C2_HighTest(df[i])
        /\ C2_MediumTest(df[i])
        /\ df[i].greenwash_risk = "High"

\* a record with a required field absent: no revenue_usd_b column, or no value
\* in it
Malformed(r) ==
    "revenue_usd_b" \notin DOMAIN r \/ IsNaN(r.revenue_usd_b)

\* C3: when a batch holds a malformed record next to a well-formed one, the
\* call still returns, the malformed record is not in the output and the
\* well-formed ones are
C3_PartialSuccess ==
    (Terminated /\ \E i \in Rows(input) : ~Malformed(input[i])) =>
        /\ Returned
        /\ \A i \in Rows(df) : ~Malformed(df[i])
        /\ \A i \in Rows(input) :
               ~Malformed(input[i]) =>
                   \E j \in Rows(df) :
                       df[j] = calculate_sustainability_metrics(<<input[i]>>).df[1]

\* a zero or missing denominator
BadDenominator(r) ==
    \/ r.revenue_usd_b = I(0) \/ IsNaN(r.revenue_usd_b)
    \/ r.employees_k = I(0)
    \/ r.last_year_total_mt = I(0)

RatioCols ==
    {"intensity_mt_per_billion", "intensity_t_per_employee", "yoy_change_pct"}

\* C4: no returned record with a zero or missing denominator carries an
\* infinite or nan ratio or score
C4_NoUnboundedValue ==
    Returned =>
        \A i \in Rows(df) :
            BadDenominator(input[i]) =>
                \A c \in RatioCols \cup ScoreCols : IsFin(df[i][c])

\* C5: on return the caller's frame is what it was before the call and the
\* result is another object
C5_InputNotMutated ==
    Returned => (df = input /\ ret # "df")

\* C6: every record of a batch comes out as it does when it is scored alone,
\* in input order
C6_PerRecordIndependent ==
    Terminated =>
        /\ Len(df) = Len(input)
        /\ \A i \in Rows(input) :
            LET alone == calculate_sustainability_metrics(<<input[i]>>)
            IN  /\ alone.pc = pc
                /\ alone.df[1] = df[i]

\* a returned batch of two different records, one of them without a rating
C6_Witness ==
    /\ Returned
    /\ Len(df) = 2
    /\ input[1] # input[2]
    /\ input[2].cdp_score = None
    /\ df[1].disclosure_score # df[2].disclosure_score

\* C7 as stated: yoy_norm is 0 at yoy_change_pct = -5 and below, 1 at 30 and
\* above
C7_AsStated ==
    Has("progress_score") =>
        \A i \in Rows(df) :
            /\ Le(df[i].yoy_change_pct, I(-5)) => yoy_norm(df[i]) = I(0)
            /\ Ge(df[i].yoy_change_pct, I(30)) => yoy_norm(df[i]) = I(1)

\* C7 amended: yoy_norm is 0 at yoy_change_pct = 5 and above, 1 at -30 and
\* below
C7_Boundaries ==
    Has("progress_score") =>
        \A i \in Rows(df) :
            /\ Ge(df[i].yoy_change_pct, I(5)) => yoy_norm(df[i]) = I(0)
            /\ Le(df[i].yoy_change_pct, I(-30)) => yoy_norm(df[i]) = I(1)

\* a scored record whose emissions fell by exactly 30 percent
C7_Witness ==
    /\ Has("progress_score")
    /\ \E i \in Rows(df) :
        /\ df[i].yoy_change_pct = I(-30)
        /\ yoy_norm(df[i]) = I(1)

C8_Table(s) ==
    CASE s = "A" -> Q(10, 10)
      [] s = "A-" -> Q(9, 10)
      [] s = "B" -> Q(7, 10)
      [] s = "C" -> Q(5, 10)
      [] s = "D" -> Q(3, 10)
      [] OTHER -> Q(5, 10)

\* C8: cdp_norm follows the table, is 0.5 for every other rating and for a
\* missing one, and a frame with a cdp_score column never fails over it
C8_CdpNorm ==
    /\ Has("cdp_norm") =>
           \A i \in Rows(df) : df[i].cdp_norm = C8_Table(df[i].cdp_score)
    /\ (Has("cdp_score") /\ pc = "raised") => exc.key # "cdp_score"

\* a batch with an unmapped and a missing rating, both normalised to 0.5
C8_Witness ==
    /\ Has("cdp_norm")
    /\ \E i, j \in Rows(df) :
        /\ df[i].cdp_score = "F"
        /\ df[j].cdp_score = None
        /\ df[i].cdp_norm = Q(1, 2)
        /\ df[j].cdp_norm = Q(1, 2)

SameButRenewable(r, q) ==
    \A c \in InputCols \ {"renewable_pct"} : r[c] = q[c]

\* C9: of two valid records that differ only in renewable_pct, the one with
\* the larger renewable_pct has a progress_score at least as large
C9_MonotoneInRenewable ==
    Has("progress_score") =>
        \A i, j \in Rows(df) :
            (/\ Valid(input[i])
             /\ Valid(input[j])
             /\ SameButRenewable(input[i], input[j])
             /\ Le(input[i].renewable_pct, input[j].renewable_pct))
                => Le(df[i].progress_score, df[j].progress_score)

\* two scored records that differ only in renewable_pct, with different
\* progress scores
C9_Witness ==
    /\ Has("progress_score")
    /\ \E i, j \in Rows(df) :
        /\ Valid(input[i])
        /\ Valid(input[j])
        /\ SameButRenewable(input[i], input[j])
        /\ Lt(input[i].renewable_pct, input[j].renewable_pct)
        /\ Lt(df[i].progress_score, df[j].progress_score)

\* C10: the sample record comes out with total_mt 5.5, yoy_change_mt -0.5,
\* yoy_change_pct -25/3, cdp_norm 0.9, a readiness strictly between 0.4 and
\* 0.8 and a Low risk
C10_Scenario ==
    Returned =>
        \A i \in Rows(df) :
            input[i] = Sample =>
                /\ df[i].total_mt = Q(11, 2)
                /\ df[i].yoy_change_mt = Q(-1, 2)
                /\ df[i].yoy_change_pct = Q(-25, 3)
                /\ df[i].cdp_norm = Q(9, 10)
                /\ Gt(df[i].netzero_readiness, Q(4, 10))
                /\ Lt(df[i].netzero_readiness, Q(8, 10))
                /\ df[i].greenwash_risk = "Low"

\* the sample record, scored and returned
C10_Witness ==
    /\ Returned
    /\ input[1] = Sample
    /\ df[1].greenwash_risk = "Low"

====
